---- MODULE Spec2Model ----
(***************************************************************************)
(* Model of the video stitcher service.                                    *)
(*                                                                         *)
(* Two programs live in the repository:                                    *)
(*   - the result-store server (src/unnamed/part_000): POST /stitch runs   *)
(*     the fetch / base-build / final-mux pipeline and registers the       *)
(*     output in the in-memory map `results`; GET /result/:id streams it;  *)
(*     cleanupResults sweeps expired entries on a timer;                   *)
(*   - the earlier single-shot server (src/server.js): POST /stitch        *)
(*     downloads through ffmpeg into a mkdtemp directory and streams the   *)
(*     output back in the same response.                                   *)
(* Spec is the first program, LegacySpec the second.  Both run over the    *)
(* same variables; the ones a program does not use stay as Init set them.  *)
(***************************************************************************)
EXTENDS Integers, Sequences, FiniteSets, TLC

VARIABLES
    reqs,       \* per POST /stitch request: position in the handler and its outcome
    fs,         \* paths that exist in os.tmpdir()
    partial,    \* the paths among fs whose content is incomplete
    results,    \* the Map `results`, as its entries in insertion order
    now,        \* Date.now(), in ms
    sweepDue,   \* the interval timer of cleanupResults has expired and its callback is pending
    reader,     \* the GET /result/:id request: position in the handler and its outcome
    apiKey,     \* API_KEY from the environment ("" when unset)
    crashed,    \* the process died of an uncaught exception
    deletes     \* files of os.tmpdir() that something other than the server has removed

vars == <<reqs, fs, partial, results, now, sweepDue, reader, apiKey, crashed, deletes>>

----------------------------------------------------------------------------
(* Bounds of the model *)

MaxReqs == 2        \* POST /stitch requests
MaxTicks == 3       \* clock steps
MaxDeletes == 1     \* removals of a file by something other than the server

Reqs == 1..MaxReqs

(* Program constants *)

RESULT_TTL_MS == 30 * 60 * 1000
SWEEP_INTERVAL_MS == 60 * 1000

(* The clock of the model advances in steps of fifteen minutes. *)
ClockStepMs == 15 * 60 * 1000

----------------------------------------------------------------------------
(* JavaScript values of the request body *)

Undef == [t |-> "undefined", v |-> <<>>]
Num42 == [t |-> "number", v |-> <<>>]
Str(s) == [t |-> "string", v |-> s]
Arr(a) == [t |-> "array", v |-> a]

HTTP == <<"h", "t", "t", "p">>
U_OK == Str(<<"h", "t", "t", "p", ":", "/", "/", "a">>)
U_OKS == Str(<<"h", "t", "t", "p", "s", ":", "/", "/", "b">>)
U_JUNK == Str(<<"h", "t", "t", "p", "x">>)
U_FTP == Str(<<"f", "t", "p", ":", "/", "/", "a">>)
U_EMPTY == Str(<<>>)

\* String.prototype.startsWith
StartsWith(s, p) ==
    /\ Len(s) >= Len(p)
    /\ SubSeq(s, 1, Len(p)) = p

\* !x for the values above
Falsy(x) == x.t = "undefined" \/ (x.t = "string" /\ x.v = <<>>)

\* a ?? b
Coalesce(a, b) == IF a.t = "undefined" THEN b ELSE a

\* new URL(s) succeeds with an http: or https: scheme and a host
ParsesAsHttpUrl(x) ==
    /\ x.t = "string"
    /\ \/ /\ StartsWith(x.v, HTTP \o <<":", "/", "/">>)
          /\ Len(x.v) > 7
       \/ /\ StartsWith(x.v, HTTP \o <<"s", ":", "/", "/">>)
          /\ Len(x.v) > 8

Body(audioUrl, narrationUrl, videoUrls, videos) ==
    [audioUrl |-> audioUrl, narrationUrl |-> narrationUrl,
     videoUrls |-> videoUrls, videos |-> videos]

Bodies ==
    { Body(U_OK, Undef, Arr(<<U_OK, U_OKS, U_OK>>), Undef),
      Body(Undef, U_OKS, Undef, Arr(<<U_OK, U_OK, U_OKS>>)),
      Body(Undef, Undef, Arr(<<U_OK, U_OKS, U_OK>>), Undef),
      Body(Num42, Undef, Arr(<<U_OK, U_OKS, U_OK>>), Undef),
      Body(U_FTP, Undef, Arr(<<U_OK, U_OKS, U_OK>>), Undef),
      Body(U_OK, Undef, Arr(<<U_OK, U_OKS>>), Undef),
      Body(U_OK, Undef, U_OK, Undef),
      Body(U_OK, Undef, Undef, Undef),
      Body(U_OK, Undef, Arr(<<U_OK, U_FTP, U_OK>>), Undef),
      Body(U_OK, Undef, Arr(<<U_OK, U_EMPTY, U_OK>>), Undef),
      Body(U_OK, Undef, Arr(<<U_OK, U_JUNK, U_OK>>), Undef) }

\* the x-api-key header of a request
Headers == {"", "secret", "wrong"}
ApiKeys == {"", "secret"}

\* The submission the service is specified to accept: one narration URL and
\* exactly three video URLs, each a well-formed absolute HTTP(S) URL.
ValidSubmission(body) ==
    LET a == Coalesce(body.audioUrl, body.narrationUrl)
        vs == Coalesce(body.videoUrls, body.videos)
    IN  /\ ParsesAsHttpUrl(a)
        /\ vs.t = "array"
        /\ Len(vs.v) = 3
        /\ \A i \in 1..3 : ParsesAsHttpUrl(vs.v[i])

----------------------------------------------------------------------------
(* Scratch files *)

FileRoles == {"v1", "v2", "v3", "narr", "list", "base", "final"}

\* a scratch name made of the role alone
TmpPathNoId(role, id) == <<<<role, "_">>, 0>>

\* path.join(os.tmpdir(), `${role}_${id}.<ext>`): the name's prefix, and the id
TmpPath(role, id) == <<<<role, "_">>, id>>

\* an id generator that gives every request the same id
NewIdFixed(r) == 1

\* crypto.randomBytes(8).toString("hex"): 64 random bits, modelled as a value
\* no other request of the run has drawn
NewId(r) == r

NoErr == [kind |-> "", code |-> ""]
Err(kind, code) == [kind |-> kind, code |-> code]

\* no child process has been awaited yet
NoRun == [out |-> "", state |-> "", err |-> NoErr]

\* ops, touched, spawnFailed, muxExit and publishedAt record what the request
\* has done: the operations it started, the paths it read, wrote or deleted,
\* that its last spawn failed to launch, how its final mux ended, when it published;
\* lastRun is how its last child process ended and what the awaited promise became;
\* atPublish is which of its scratch files were on disk when results.set ran
IdleReq ==
    [pc |-> "idle", status |-> 0, err |-> NoErr, id |-> 0, parses |-> <<>>,
     valid |-> FALSE, ops |-> <<>>, touched |-> {}, spawnFailed |-> FALSE,
     muxExit |-> "", publishedAt |-> -1, lastRun |-> NoRun, atPublish |-> {}]

\* expiredAtLookup, missingAtLookup and expiredAtOpen record what was the case
\* when the handler ran: the entry's expiresAt had passed, its file was gone
IdleReader ==
    [pc |-> "idle", id |-> 0, path |-> <<>>, expiresAt |-> 0, status |-> 0,
     content |-> "", expiredAtLookup |-> FALSE, missingAtLookup |-> FALSE,
     expiredAtOpen |-> FALSE]

Init ==
    /\ reqs = [r \in Reqs |-> IdleReq]
    /\ fs = {}
    /\ partial = {}
    /\ results = <<>>
    /\ now = 0
    /\ sweepDue = FALSE
    /\ reader = IdleReader
    /\ apiKey \in ApiKeys
    /\ crashed = FALSE
    /\ deletes = 0

----------------------------------------------------------------------------
(* POST /stitch of the result-store server *)

\* if (API_KEY) { const got = req.header("x-api-key"); if (!got || got !== API_KEY) ... }
Unauthorized(key, hdr) == key # "" /\ (hdr = "" \/ hdr # key)

\* !u || typeof u !== "string" || !u.startsWith("http")
BadUrl(u) == Falsy(u) \/ u.t # "string" \/ ~StartsWith(u.v, HTTP)

\* videoUrls.find(v => ...): the first element the test holds of, else undefined
FindBad(a) ==
    LET hits == {i \in 1..Len(a) : BadUrl(a[i])}
    IN  IF hits = {} THEN Undef
        ELSE a[CHOOSE i \in hits : \A j \in hits : i <= j]

\* the three checks of the handler, in order
Validate(body) ==
    LET audioUrl == Coalesce(body.audioUrl, body.narrationUrl)
        videoUrls == Coalesce(body.videoUrls, body.videos)
    IN  IF BadUrl(audioUrl) THEN "bad_audio"
        ELSE IF videoUrls.t # "array" \/ Len(videoUrls.v) # 3 THEN "bad_array"
        ELSE IF ~Falsy(FindBad(videoUrls.v)) THEN "bad_video"
        ELSE "ok"

\* the URLs in the order they are fetched: v1, v2, v3, narration
FetchOrder(body) ==
    Coalesce(body.videoUrls, body.videos).v
        \o <<Coalesce(body.audioUrl, body.narrationUrl)>>

\* a handler that starts the failed operation once more before giving up
CatchRetryOnce(q, e) ==
    IF q.err = NoErr /\ q.ops # <<>>
    THEN [q EXCEPT !.err = e, !.ops = Append(@, @[Len(@)])]
    ELSE [q EXCEPT !.pc = "failed", !.status = 500, !.err = e]

\* catch (e) { console.error(e); return res.status(500).json({ error: ... }) }
CatchHandler(q, e) == [q EXCEPT !.pc = "failed", !.status = 500, !.err = e]

\* The handler up to its first await: auth, validation, the job id, and the
\* call of downloadToTmp for the first video, which calls fetch.
Submit(r, hdr, body) ==
    /\ ~crashed
    /\ reqs[r].pc = "idle"
    /\ \A q \in Reqs : q < r => reqs[q].pc # "idle"
    /\ reqs' = [reqs EXCEPT ![r] =
         IF Unauthorized(apiKey, hdr)
         THEN [@ EXCEPT !.pc = "unauthorized", !.status = 401]
         ELSE IF Validate(body) # "ok"
         THEN [@ EXCEPT !.pc = "rejected", !.status = 400,
                        !.err = Err(Validate(body), ""),
                        !.valid = ValidSubmission(body)]
         ELSE [@ EXCEPT !.pc = "v1", !.id = NewId(r),
                        !.parses = [i \in 1..4 |-> ParsesAsHttpUrl(FetchOrder(body)[i])],
                        !.valid = ValidSubmission(body),
                        !.ops = <<"fetch_v1">>]]
    /\ UNCHANGED <<fs, partial, results, now, sweepDue, reader, apiKey, crashed, deletes>>

DownloadPcs == {"v1", "v2", "v3", "a1"}
FetchIndex(pc) == CASE pc = "v1" -> 1 [] pc = "v2" -> 2 [] pc = "v3" -> 3 [] pc = "a1" -> 4
FetchRole(pc) == IF pc = "a1" THEN "narr" ELSE pc
\* a handler that starts the narration fetch without awaiting the other videos
AfterFetchPipelined(pc) ==
    CASE pc = "v1" -> [pc |-> "a1", op |-> "fetch_a1"]
      [] pc = "v2" -> [pc |-> "v3", op |-> "fetch_v3"]
      [] pc = "v3" -> [pc |-> "a1", op |-> "fetch_a1"]
      [] pc = "a1" -> [pc |-> "list", op |-> "write_list"]

\* what the handler starts once the download awaited at pc has returned
AfterFetch(pc) ==
    CASE pc = "v1" -> [pc |-> "v2", op |-> "fetch_v2"]
      [] pc = "v2" -> [pc |-> "v3", op |-> "fetch_v3"]
      [] pc = "v3" -> [pc |-> "a1", op |-> "fetch_a1"]
      [] pc = "a1" -> [pc |-> "list", op |-> "write_list"]

\* How a call of downloadToTmp can end.  fetch rejects for a string it cannot
\* parse as a URL; for a URL, the network decides.
DownloadOutcomes(parsesOk) ==
    IF parsesOk THEN {"ok", "http_error", "no_body", "fetch_rejected", "stream_error"}
    ELSE {"fetch_rejected"}

\* downloadToTmp, from the settling of fetch to its return or throw
DownloadSettle(r, out) ==
    LET q == reqs[r]
        p == TmpPath(FetchRole(q.pc), q.id)
        nx == AfterFetch(q.pc)
    IN  /\ ~crashed
        /\ q.pc \in DownloadPcs
        /\ out \in DownloadOutcomes(q.parses[FetchIndex(q.pc)])
        /\ IF out = "ok"
           THEN /\ fs' = fs \cup {p}
                /\ partial' = partial \ {p}
                /\ reqs' = [reqs EXCEPT ![r] =
                     [q EXCEPT !.pc = nx.pc, !.ops = Append(@, nx.op),
                               !.touched = @ \cup {p}]]
           ELSE IF out = "stream_error"
           THEN \* pipeline rejected after createWriteStream opened the file
                /\ fs' = fs \cup {p}
                /\ partial' = partial \cup {p}
                /\ reqs' = [reqs EXCEPT ![r] =
                     CatchHandler([q EXCEPT !.touched = @ \cup {p}],
                                  Err("pipeline", ""))]
           ELSE \* fetch rejected, or the status or the missing body made
                \* downloadToTmp throw, before the file is opened
                /\ fs' = fs
                /\ partial' = partial
                /\ reqs' = [reqs EXCEPT ![r] = CatchHandler(q, Err("download", ""))]
        /\ UNCHANGED <<results, now, sweepDue, reader, apiKey, crashed, deletes>>

\* await fs.promises.writeFile(listPath, listTxt, "utf8"), then the call of
\* runFFmpeg(baseArgs), which spawns ffmpeg
WriteListSettle(r, ok) ==
    LET q == reqs[r]
        p == TmpPath("list", q.id)
    IN  /\ ~crashed
        /\ q.pc = "list"
        /\ fs' = fs \cup {p}
        /\ IF ok
           THEN /\ partial' = partial \ {p}
                /\ reqs' = [reqs EXCEPT ![r] =
                     [q EXCEPT !.pc = "base", !.ops = Append(@, "base_build"),
                               !.touched = @ \cup {p}]]
           ELSE /\ partial' = partial \cup {p}
                /\ reqs' = [reqs EXCEPT ![r] =
                     CatchHandler([q EXCEPT !.touched = @ \cup {p}],
                                  Err("writefile", "ENOSPC"))]
        /\ UNCHANGED <<results, now, sweepDue, reader, apiKey, crashed, deletes>>

----------------------------------------------------------------------------
(* The subprocess invoker *)

\* how a spawn of ffmpeg can end
SpawnOutcomes == {"enoent", "exit0", "exit1", "signal"}

\* The events the ChildProcess emits.  A failed spawn emits 'error' and then
\* 'close' with a negative code; a signal kill closes with code null.
ChildEvents(out) ==
    CASE out = "enoent" -> <<[ev |-> "error", code |-> "ENOENT", signal |-> "null"],
                             [ev |-> "close", code |-> "-2", signal |-> "null"]>>
      [] out = "exit0"  -> <<[ev |-> "close", code |-> "0", signal |-> "null"]>>
      [] out = "exit1"  -> <<[ev |-> "close", code |-> "1", signal |-> "null"]>>
      [] out = "signal" -> <<[ev |-> "close", code |-> "null", signal |-> "SIGKILL"]>>

Pending == [state |-> "pending", err |-> NoErr, calls |-> 0]

\* resolve() and reject(e) of a promise: only the first call settles it
Resolve(pr) ==
    IF pr.state = "pending" THEN [pr EXCEPT !.state = "resolved", !.calls = @ + 1]
    ELSE [pr EXCEPT !.calls = @ + 1]

Reject(pr, e) ==
    IF pr.state = "pending"
    THEN [pr EXCEPT !.state = "rejected", !.err = e, !.calls = @ + 1]
    ELSE [pr EXCEPT !.calls = @ + 1]

\* p.on("error", (err) => reject(new Error(`spawn ffmpeg failed: ${err.code} ...`)))
OnErrorFFmpeg(pr, e) == Reject(pr, Err("spawn_failed", e.code))

\* a close handler that resolves whatever the exit code
OnCloseAnyExit(pr, e) == Resolve(pr)

\* a close handler that settles on an exit code only, not on a signal
OnCloseIgnoresSignal(pr, e) ==
    IF e.code = "0" THEN Resolve(pr)
    ELSE IF e.code = "null" THEN pr
    ELSE Reject(pr, Err("ffmpeg_exited", e.code))

\* p.on("close", (code, signal) => { if (code === 0) return resolve(); reject(...) })
OnCloseFFmpeg(pr, e) ==
    IF e.code = "0" THEN Resolve(pr)
    ELSE Reject(pr, Err("ffmpeg_exited", IF e.code = "null" THEN e.signal ELSE e.code))

RECURSIVE DeliverFFmpeg(_, _)
DeliverFFmpeg(pr, evs) ==
    IF evs = <<>> THEN pr
    ELSE DeliverFFmpeg(IF Head(evs).ev = "error" THEN OnErrorFFmpeg(pr, Head(evs))
                       ELSE OnCloseFFmpeg(pr, Head(evs)),
                       Tail(evs))

\* the promise runFFmpeg returns, once the child's events are delivered
runFFmpeg(out) == DeliverFFmpeg(Pending, ChildEvents(out))

----------------------------------------------------------------------------
(* File deletion *)

\* fs.unlinkSync(p): throws ENOENT when p does not exist
UnlinkSync(files, p) ==
    IF p \in files THEN [fs |-> files \ {p}, threw |-> FALSE]
    ELSE [fs |-> files, threw |-> TRUE]

\* fs.unlinkSync(p) outside any try
TryUnlinkNoCatch(files, p) ==
    [fs |-> UnlinkSync(files, p).fs, escaped |-> UnlinkSync(files, p).threw]

\* try { fs.unlinkSync(p); } catch {}
TryUnlink(files, p) == [fs |-> UnlinkSync(files, p).fs, escaped |-> FALSE]

\* for (const p of ps) { try { fs.unlinkSync(p); } catch {} }
RECURSIVE UnlinkAll(_, _)
UnlinkAll(files, ps) ==
    IF ps = <<>> THEN [fs |-> files, escaped |-> FALSE]
    ELSE LET u == TryUnlink(files, Head(ps))
         IN  IF u.escaped THEN u ELSE UnlinkAll(u.fs, Tail(ps))

----------------------------------------------------------------------------
(* The Map `results` *)

MapHas(m, id) == \E i \in 1..Len(m) : m[i].id = id

MapGet(m, id) == m[CHOOSE i \in 1..Len(m) : m[i].id = id]

\* a store that holds the last result only
MapSetClobber(m, id, meta) ==
    <<[id |-> id, filePath |-> meta.filePath, expiresAt |-> meta.expiresAt]>>

\* results.set(id, meta): a present key keeps its place and takes the new value
MapSet(m, id, meta) ==
    LET e == [id |-> id, filePath |-> meta.filePath, expiresAt |-> meta.expiresAt]
    IN  IF MapHas(m, id) THEN [i \in 1..Len(m) |-> IF m[i].id = id THEN e ELSE m[i]]
        ELSE Append(m, e)

----------------------------------------------------------------------------
(* The two transcode stages of POST /stitch *)

BaseInputs(id) ==
    {TmpPath("list", id), TmpPath("v1", id), TmpPath("v2", id), TmpPath("v3", id)}

FinalInputs(id) == {TmpPath("base", id), TmpPath("narr", id)}

\* What a run of ffmpeg does to the file system: exit code 0 leaves the whole
\* output; a failed or killed run may leave a part of it; a failed spawn
\* leaves nothing.
FFmpegWrites(files, out, leaves, outPath) ==
    IF out = "exit0" \/ (out \in {"exit1", "signal"} /\ leaves)
    THEN files \cup {outPath}
    ELSE files

FFmpegPartial(parts, out, leaves, outPath) ==
    IF out = "exit0" THEN parts \ {outPath}
    ELSE IF out \in {"exit1", "signal"} /\ leaves THEN parts \cup {outPath}
    ELSE parts

\* ffmpeg exits with code 0 only when it could read all of its inputs
CanSucceed(out, inputs) == out = "exit0" => inputs \subseteq (fs \ partial)

\* an await on a promise that never settles
Hung(q) == [q EXCEPT !.pc = "hung"]

\* await runFFmpeg(baseArgs), then the call of runFFmpeg(finalArgs)
BaseSettle(r, out, leaves) ==
    LET q == reqs[r]
        basePath == TmpPath("base", q.id)
        pr == runFFmpeg(out)
        used == IF out = "enoent" THEN {} ELSE BaseInputs(q.id) \cup {basePath}
        q1 == [q EXCEPT !.touched = @ \cup used, !.spawnFailed = (out = "enoent"),
                        !.lastRun = [out |-> out, state |-> pr.state, err |-> pr.err]]
    IN  /\ ~crashed
        /\ q.pc = "base"
        /\ CanSucceed(out, BaseInputs(q.id))
        /\ leaves => out \in {"exit1", "signal"}
        /\ fs' = FFmpegWrites(fs, out, leaves, basePath)
        /\ partial' = FFmpegPartial(partial, out, leaves, basePath)
        /\ reqs' = [reqs EXCEPT ![r] =
             IF pr.state = "resolved"
             THEN [q1 EXCEPT !.pc = "final", !.ops = Append(@, "final_mux")]
             ELSE IF pr.state = "rejected" THEN CatchHandler(q1, pr.err)
             ELSE Hung(q1)]
        /\ UNCHANGED <<results, now, sweepDue, reader, apiKey, crashed, deletes>>

\* a deletion list that names the output as well
IntermediatesAndOut(id) ==
    <<TmpPath("v1", id), TmpPath("v2", id), TmpPath("v3", id),
      TmpPath("narr", id), TmpPath("final", id)>>

\* [v1, v2, v3, a1, listPath]
Intermediates(id) ==
    <<TmpPath("v1", id), TmpPath("v2", id), TmpPath("v3", id),
      TmpPath("narr", id), TmpPath("list", id)>>

\* The deletions of the handler: the base clip, then the intermediate files.
\* The first deletion that throws ends them.
Cleanup(files, id) ==
    LET u == TryUnlink(files, TmpPath("base", id))
    IN  IF u.escaped THEN u ELSE UnlinkAll(u.fs, Intermediates(id))

\* a success path that registers the result before any deletion
SuccessTailPublishFirst(q, files, res, t) ==
    LET id == q.id
        res2 == MapSet(res, id, [filePath |-> TmpPath("final", id),
                                 expiresAt |-> t + RESULT_TTL_MS])
        c == Cleanup(files, id)
        deleted == {TmpPath("base", id)} \cup {Intermediates(id)[i] : i \in 1..5}
    IN  [fs |-> c.fs, results |-> res2,
         req |-> [q EXCEPT !.touched = @ \cup deleted,
                           !.atPublish = {TmpPath(role, id) : role \in FileRoles} \cap files,
                           !.pc = "done", !.status = 200, !.publishedAt = t]]

\* The handler after runFFmpeg(finalArgs) has resolved: unlink the base clip,
\* register the result, unlink the inputs and the list file, answer.
SuccessTail(q, files, res, t) ==
    LET id == q.id
        outPath == TmpPath("final", id)
        u == TryUnlink(files, TmpPath("base", id))
        res2 == MapSet(res, id, [filePath |-> outPath, expiresAt |-> t + RESULT_TTL_MS])
        c == Cleanup(files, id)
        deleted == {TmpPath("base", id)} \cup {Intermediates(id)[i] : i \in 1..5}
        q1 == [q EXCEPT !.touched = @ \cup deleted,
                        !.atPublish = {TmpPath(role, id) : role \in FileRoles} \cap u.fs]
    IN  IF u.escaped
        THEN [fs |-> u.fs, results |-> res,
              req |-> CatchHandler(q1, Err("unlink", "ENOENT"))]
        ELSE IF c.escaped
        THEN [fs |-> c.fs, results |-> res2,
              req |-> CatchHandler([q1 EXCEPT !.publishedAt = t], Err("unlink", "ENOENT"))]
        ELSE [fs |-> c.fs, results |-> res2,
              req |-> [q1 EXCEPT !.pc = "done", !.status = 200, !.publishedAt = t]]

\* await runFFmpeg(finalArgs) and the rest of the handler
FinalSettle(r, out, leaves) ==
    LET q == reqs[r]
        outPath == TmpPath("final", q.id)
        pr == runFFmpeg(out)
        used == IF out = "enoent" THEN {} ELSE FinalInputs(q.id) \cup {outPath}
        q1 == [q EXCEPT !.touched = @ \cup used, !.spawnFailed = (out = "enoent"),
                        !.muxExit = out,
                        !.lastRun = [out |-> out, state |-> pr.state, err |-> pr.err]]
        written == FFmpegWrites(fs, out, leaves, outPath)
        tail == SuccessTail(q1, written, results, now)
    IN  /\ ~crashed
        /\ q.pc = "final"
        /\ CanSucceed(out, FinalInputs(q.id))
        /\ leaves => out \in {"exit1", "signal"}
        /\ IF pr.state = "resolved"
           THEN /\ fs' = tail.fs
                /\ results' = tail.results
                /\ reqs' = [reqs EXCEPT ![r] = tail.req]
           ELSE /\ fs' = written
                /\ results' = results
                /\ reqs' = [reqs EXCEPT ![r] =
                     IF pr.state = "rejected" THEN CatchHandler(q1, pr.err)
                     ELSE Hung(q1)]
        /\ partial' = FFmpegPartial(partial, out, leaves, outPath) \cap fs'
        /\ UNCHANGED <<now, sweepDue, reader, apiKey, crashed, deletes>>

----------------------------------------------------------------------------
(* The sweep *)

\* a sweep that takes every entry, expired or not
SweepAll(entries, files, t) ==
    [results |-> <<>>,
     fs |-> files \ {entries[i].filePath : i \in 1..Len(entries)}]

\* a sweep that deletes the files of the expired entries and keeps the entries
SweepFilesOnly(entries, files, t) ==
    [results |-> entries,
     fs |-> files \ {entries[i].filePath : i \in {j \in 1..Len(entries) : entries[j].expiresAt <= t}}]

\* a sweep whose iterator steps over the entry that follows a deleted one
RECURSIVE SweepSkipsNext(_, _, _)
SweepSkipsNext(entries, files, t) ==
    IF entries = <<>> THEN [results |-> <<>>, fs |-> files]
    ELSE LET meta == Head(entries)
         IN  IF meta.expiresAt <= t /\ Len(entries) = 1
             THEN [results |-> <<>>, fs |-> TryUnlink(files, meta.filePath).fs]
             ELSE IF meta.expiresAt <= t
             THEN LET rest == SweepSkipsNext(Tail(Tail(entries)),
                                             TryUnlink(files, meta.filePath).fs, t)
                  IN  [results |-> <<entries[2]>> \o rest.results, fs |-> rest.fs]
             ELSE LET rest == SweepSkipsNext(Tail(entries), files, t)
                  IN  [results |-> <<meta>> \o rest.results, fs |-> rest.fs]

\* The loop of cleanupResults over the entries, in insertion order.  Deleting
\* the entry under the iterator does not move the iterator.
RECURSIVE SweepEntries(_, _, _)
SweepEntries(entries, files, t) ==
    IF entries = <<>> THEN [results |-> <<>>, fs |-> files]
    ELSE LET meta == Head(entries)
         IN  IF meta.expiresAt <= t
             THEN SweepEntries(Tail(entries), TryUnlink(files, meta.filePath).fs, t)
             ELSE LET rest == SweepEntries(Tail(entries), files, t)
                  IN  [results |-> <<meta>> \o rest.results, fs |-> rest.fs]

\* setInterval(cleanupResults, 60 * 1000): the callback runs once the timer
\* has expired
cleanupResults ==
    LET s == SweepEntries(results, fs, now)
    IN  /\ ~crashed
        /\ sweepDue
        /\ sweepDue' = FALSE
        /\ results' = s.results
        /\ fs' = s.fs
        /\ partial' = partial \cap s.fs
        /\ UNCHANGED <<reqs, now, reader, apiKey, crashed, deletes>>

----------------------------------------------------------------------------
(* GET /result/:id *)

\* ids a client may ask for: the ids the server has issued, and 0, which it never issues
AskedIds == {0} \cup {reqs[r].id : r \in Reqs}

\* The handler: results.get(id), 404 when absent; else the headers are set and
\* fs.createReadStream(meta.filePath) is created, which opens the file later.
GetLookup(id) ==
    /\ ~crashed
    /\ reader.pc # "opening"
    /\ reader' =
         IF ~MapHas(results, id)
         THEN [IdleReader EXCEPT !.pc = "done", !.id = id, !.status = 404]
         ELSE LET meta == MapGet(results, id)
              IN  [IdleReader EXCEPT !.pc = "opening", !.id = id,
                                     !.path = meta.filePath,
                                     !.expiresAt = meta.expiresAt,
                                     !.expiredAtLookup = (meta.expiresAt <= now),
                                     !.missingAtLookup = (meta.filePath \notin fs)]
    /\ UNCHANGED <<reqs, fs, partial, results, now, sweepDue, apiKey, crashed, deletes>>

\* The read stream opens the file: stream.pipe(res) sends it with status 200,
\* or the stream's 'error' handler answers res.status(500).end().
GetOpen ==
    /\ ~crashed
    /\ reader.pc = "opening"
    /\ reader' =
         [reader EXCEPT !.pc = "done",
                        !.expiresAt = 0,
                        !.expiredAtOpen = (reader.expiresAt <= now),
                        !.status = IF reader.path \in fs THEN 200 ELSE 500,
                        !.content = IF reader.path \notin fs THEN ""
                                    ELSE IF reader.path \in partial THEN "partial"
                                    ELSE "full"]
    /\ UNCHANGED <<reqs, fs, partial, results, now, sweepDue, apiKey, crashed, deletes>>

----------------------------------------------------------------------------
(* Time, and the specification of the result-store server *)

\* Date.now() is read by results.set (line 185) and by cleanupResults (line 25)
\* only, and each compares it with an expiresAt made by results.set: until a
\* first result is published nothing depends on the clock, so time 0 is taken
\* as late as the first publication.
Tick ==
    /\ now < MaxTicks * ClockStepMs
    /\ \E r \in Reqs : reqs[r].publishedAt >= 0
    /\ now' = now + ClockStepMs
    /\ sweepDue' = (sweepDue \/ ClockStepMs >= SWEEP_INTERVAL_MS)
    /\ UNCHANGED <<reqs, fs, partial, results, reader, apiKey, crashed, deletes>>

Next ==
    \/ \E r \in Reqs, hdr \in Headers, body \in Bodies : Submit(r, hdr, body)
    \/ \E r \in Reqs, out \in DownloadOutcomes(TRUE) : DownloadSettle(r, out)
    \/ \E r \in Reqs, ok \in BOOLEAN : WriteListSettle(r, ok)
    \/ \E r \in Reqs, out \in SpawnOutcomes, leaves \in BOOLEAN : BaseSettle(r, out, leaves)
    \/ \E r \in Reqs, out \in SpawnOutcomes, leaves \in BOOLEAN : FinalSettle(r, out, leaves)
    \/ cleanupResults
    \/ \E id \in AskedIds : GetLookup(id)
    \/ GetOpen
    \/ Tick

Spec == Init /\ [][Next]_vars

\* One await of request r returns or throws.
JobStep(r) ==
    \/ \E out \in DownloadOutcomes(TRUE) : DownloadSettle(r, out)
    \/ \E ok \in BOOLEAN : WriteListSettle(r, ok)
    \/ \E out \in SpawnOutcomes, leaves \in BOOLEAN : BaseSettle(r, out, leaves)
    \/ \E out \in SpawnOutcomes, leaves \in BOOLEAN : FinalSettle(r, out, leaves)

\* The server when every fetch, file write and ffmpeg process ends, one way or
\* another: the event loop then runs the continuation of the await.
FairSpec == Init /\ [][Next]_vars /\ \A r \in Reqs : WF_vars(JobStep(r))

----------------------------------------------------------------------------
(* The result-store server in a temp directory that others clean too *)

\* os.tmpdir() is shared: a tmp reaper or an operator removes a file
ExternalDelete(p) ==
    /\ deletes < MaxDeletes
    /\ p \in fs
    /\ deletes' = deletes + 1
    /\ fs' = fs \ {p}
    /\ partial' = partial \ {p}
    /\ UNCHANGED <<reqs, results, now, sweepDue, reader, apiKey, crashed>>

EnvNext ==
    \/ Next
    \/ \E p \in fs : ExternalDelete(p)

EnvSpec == Init /\ [][EnvNext]_vars

----------------------------------------------------------------------------
(* The single-shot server, src/server.js *)

SafeChars ==
    {"a", "b", "c", "d", "e", "f", "g", "h", "i", "j", "k", "l", "m", "n", "o", "p",
     "q", "r", "s", "t", "u", "v", "w", "x", "y", "z",
     "A", "B", "C", "D", "E", "F", "G", "H", "I", "J", "K", "L", "M", "N", "O", "P",
     "Q", "R", "S", "T", "U", "V", "W", "X", "Y", "Z",
     "0", "1", "2", "3", "4", "5", "6", "7", "8", "9", ".", "_", "-"}

\* name.replace(/[^a-zA-Z0-9._-]/g, "_")
safeTmp(name) == [i \in 1..Len(name) |-> IF name[i] \in SafeChars THEN name[i] ELSE "_"]

LegacyNames ==
    [v1 |-> <<"v", "1", ".", "m", "p", "4">>,
     v2 |-> <<"v", "2", ".", "m", "p", "4">>,
     v3 |-> <<"v", "3", ".", "m", "p", "4">>,
     a1 |-> <<"n", "a", "r", "r", "a", "t", "i", "o", "n", ".", "m", "p", "3">>,
     out |-> <<"f", "i", "n", "a", "l", ".", "m", "p", "4">>]

\* fs.mkdtempSync(path.join(os.tmpdir(), "stitch-")): a directory no other call got
LegacyDir(id) == <<<<>>, id>>

\* path.join(tmp, safeTmp(name))
LegacyPath(k, id) == <<safeTmp(LegacyNames[k]), id>>

\* fs.rmSync(tmp, { recursive: true, force: true })
RmTree(files, id) == {p \in files : p[2] # id}

\* the two checks of the handler, in order; it reads videos and narrationUrl only
LegacyValidate(body) ==
    IF body.videos.t # "array" \/ Len(body.videos.v) # 3 THEN "bad_videos"
    ELSE IF Falsy(body.narrationUrl) \/ body.narrationUrl.t # "string" THEN "bad_narration"
    ELSE "ok"

LegacyBodies ==
    { Body(Undef, U_OKS, Undef, Arr(<<U_OK, U_OK, U_OKS>>)),
      Body(U_OK, Undef, Arr(<<U_OK, U_OKS, U_OK>>), Undef),
      Body(Undef, U_OK, Undef, Arr(<<U_OK, U_OKS>>)),
      Body(Undef, Num42, Undef, Arr(<<U_OK, U_OKS, U_OK>>)),
      Body(Undef, U_OK, Undef, Arr(<<U_FTP, U_OKS, U_OK>>)),
      Body(Undef, U_JUNK, Undef, Arr(<<U_OK, U_OKS, U_OK>>)) }

\* run(cmd, args) listens to 'close' only: an 'error' event finds no listener,
\* and the EventEmitter throws it as an uncaught exception
OnCloseRun(pr, e) ==
    IF e.code = "0" THEN Resolve(pr)
    ELSE Reject(pr, Err("command_failed", e.code))

RECURSIVE DeliverRun(_, _)
DeliverRun(pr, evs) ==
    IF evs = <<>> THEN pr
    ELSE IF Head(evs).ev = "error" THEN [pr EXCEPT !.state = "uncaught"]
    ELSE DeliverRun(OnCloseRun(pr, Head(evs)), Tail(evs))

run(out) == DeliverRun(Pending, ChildEvents(out))

\* The handler up to its first await: auth, validation, the temp directory,
\* and downloadToFile for the first video, which spawns ffmpeg.
LegacySubmit(r, hdr, body) ==
    LET id == NewId(r)
        accepted == ~Unauthorized(apiKey, hdr) /\ LegacyValidate(body) = "ok"
    IN  /\ ~crashed
        /\ reqs[r].pc = "idle"
        /\ \A q \in Reqs : q < r => reqs[q].pc # "idle"
        /\ reqs' = [reqs EXCEPT ![r] =
             IF Unauthorized(apiKey, hdr)
             THEN [@ EXCEPT !.pc = "unauthorized", !.status = 401]
             ELSE IF LegacyValidate(body) # "ok"
             THEN [@ EXCEPT !.pc = "rejected", !.status = 400,
                            !.err = Err(LegacyValidate(body), ""),
                            !.valid = ValidSubmission(body)]
             ELSE [@ EXCEPT !.pc = "v1", !.id = id,
                            !.parses = [i \in 1..4 |->
                               ParsesAsHttpUrl((body.videos.v \o <<body.narrationUrl>>)[i])],
                            !.valid = ValidSubmission(body),
                            !.ops = <<"spawn_v1">>,
                            !.touched = {LegacyDir(id)}]]
        /\ fs' = IF accepted THEN fs \cup {LegacyDir(id)} ELSE fs
        /\ UNCHANGED <<partial, results, now, sweepDue, reader, apiKey, crashed, deletes>>

LegacyAfter(pc) ==
    CASE pc = "v1" -> [pc |-> "v2", op |-> "spawn_v2"]
      [] pc = "v2" -> [pc |-> "v3", op |-> "spawn_v3"]
      [] pc = "v3" -> [pc |-> "a1", op |-> "spawn_a1"]
      [] pc = "a1" -> [pc |-> "final", op |-> "spawn_final"]

\* await run("ffmpeg", ...) of downloadToFile or of the stitch, and what the
\* handler does next
LegacyRunSettle(r, out, leaves) ==
    LET q == reqs[r]
        k == IF q.pc = "final" THEN "out" ELSE q.pc
        p == LegacyPath(k, q.id)
        inputs == {LegacyPath(i, q.id) : i \in {"v1", "v2", "v3", "a1"}}
        pr == run(out)
        used == IF out = "enoent" THEN {}
                ELSE IF q.pc = "final" THEN inputs \cup {p} ELSE {p}
        q1 == [q EXCEPT !.touched = @ \cup used, !.spawnFailed = (out = "enoent"),
                        !.lastRun = [out |-> out, state |-> pr.state, err |-> pr.err]]
    IN  /\ ~crashed
        /\ q.pc \in DownloadPcs \cup {"final"}
        /\ leaves => out \in {"exit1", "signal"}
        /\ (out = "exit0" /\ q.pc = "final") => inputs \subseteq (fs \ partial)
        /\ fs' = FFmpegWrites(fs, out, leaves, p)
        /\ partial' = FFmpegPartial(partial, out, leaves, p)
        /\ crashed' = (pr.state = "uncaught")
        /\ reqs' = [reqs EXCEPT ![r] =
             IF pr.state = "uncaught" THEN q1
             ELSE IF pr.state = "pending" THEN Hung(q1)
             ELSE IF pr.state = "rejected" THEN CatchHandler(q1, pr.err)
             ELSE IF q.pc = "final"
             THEN \* the headers are set and the output is piped to the response
                  [q1 EXCEPT !.pc = "stream", !.status = 200]
             ELSE [q1 EXCEPT !.pc = LegacyAfter(q.pc).pc,
                             !.ops = Append(@, LegacyAfter(q.pc).op)]]
        /\ UNCHANGED <<results, now, sweepDue, reader, apiKey, deletes>>

\* stream.on("close", () => { try { fs.rmSync(tmp, ...) } catch {} })
LegacyStreamClose(r) ==
    /\ ~crashed
    /\ reqs[r].pc = "stream"
    /\ fs' = RmTree(fs, reqs[r].id)
    /\ partial' = partial \cap fs'
    /\ reqs' = [reqs EXCEPT ![r] =
         [@ EXCEPT !.pc = "done", !.touched = @ \cup {p \in fs : p[2] = reqs[r].id}]]
    /\ UNCHANGED <<results, now, sweepDue, reader, apiKey, crashed, deletes>>

LegacyNext ==
    \/ \E r \in Reqs, hdr \in Headers, body \in LegacyBodies : LegacySubmit(r, hdr, body)
    \/ \E r \in Reqs, out \in SpawnOutcomes, leaves \in BOOLEAN : LegacyRunSettle(r, out, leaves)
    \/ \E r \in Reqs : LegacyStreamClose(r)

LegacySpec == Init /\ [][LegacyNext]_vars

----------------------------------------------------------------------------
(* Properties *)

Running == {"v1", "v2", "v3", "a1", "list", "base", "final"}
Issued == {r \in Reqs : reqs[r].id # 0}
FinalPath(r) == TmpPath("final", reqs[r].id)
ScratchOf(r) == {TmpPath(role, reqs[r].id) : role \in FileRoles}
ExpiryOf(r) == reqs[r].publishedAt + RESULT_TTL_MS

\* C1: a retrieval made when the entry's expiresAt has passed answers 404,
\* as for an id that was never issued, whether or not the sweep has run.
C1_ExpiredReadIsNotFound ==
    (reader.pc = "done" /\ reader.expiredAtLookup) => reader.status = 404

\* C2: once a job has failed, none of its scratch files (fetched inputs,
\* list file, base clip, final output) is left on disk.
C2_FailedJobLeavesNoScratch ==
    \A r \in Reqs : reqs[r].pc = "failed" => ScratchOf(r) \cap fs = {}

\* a video URL answered 404 after a sibling had been fetched
C2_SiblingFetched ==
    \E r \in Reqs :
        /\ reqs[r].pc = "failed"
        /\ reqs[r].err.kind = "download"
        /\ TmpPath("v1", reqs[r].id) \in fs

\* C3: a Result Entry exists only for a job whose final mux exited with code
\* 0 and that did not fail; a failed job has no entry; a retrieval only ever
\* opens, and only ever sends, the complete output of such a job.
C3_PublishedOnlyAfterMux ==
    /\ \A i \in 1..Len(results) :
         \E r \in Issued :
             /\ reqs[r].id = results[i].id
             /\ reqs[r].muxExit = "exit0"
             /\ reqs[r].pc = "done"
             /\ results[i].filePath = FinalPath(r)
    /\ \A r \in Reqs : reqs[r].pc \in {"failed", "hung"} => ~MapHas(results, reqs[r].id)
    /\ reader.path # <<>> =>
         \E r \in Issued : reader.path = FinalPath(r) /\ reqs[r].muxExit = "exit0"
    /\ reader.status = 200 => reader.content = "full"

\* an artifact is served while another job's final mux has failed and left
\* a part of its output behind
C3_Witness ==
    /\ reader.status = 200
    /\ \E r \in Reqs :
         /\ reqs[r].pc = "failed"
         /\ reqs[r].muxExit \in {"exit1", "signal"}
         /\ FinalPath(r) \in partial

\* C4: an invalid submission that passes the key check is answered 400
\* before any fetch is started and before any scratch file is written.
C4_InvalidRejectedFirst ==
    \A r \in Reqs :
        (reqs[r].pc \notin {"idle", "unauthorized"} /\ ~reqs[r].valid) =>
            /\ reqs[r].status = 400
            /\ reqs[r].ops = <<>>
            /\ ScratchOf(r) \cap fs = {}

\* C5: every valid submission that is accepted ends, and ends either with
\* status 200 at a moment when its entry and its file are there, or with
\* status 500 and no entry.
C5_Responded(r) == reqs[r].pc \in {"done", "failed"}

C5_Exclusive ==
    \A r \in Reqs :
        /\ reqs[r].status = 500 => ~MapHas(results, reqs[r].id)
        /\ reqs[r].pc = "done" => reqs[r].status = 200
        /\ reqs[r].pc = "failed" => reqs[r].status = 500
        /\ reqs[r].pc \in Running => reqs[r].status = 0

C5_AnswerStep ==
    \A r \in Reqs :
        (reqs[r].status = 0 /\ reqs'[r].status = 200) =>
            /\ MapHas(results', reqs'[r].id)
            /\ MapGet(results', reqs'[r].id).filePath \in (fs' \ partial')

C6_Live ==
    \A r \in Reqs :
        (reqs[r].pc = "done" /\ now < ExpiryOf(r)) =>
            /\ MapHas(results, reqs[r].id)
            /\ MapGet(results, reqs[r].id).expiresAt = ExpiryOf(r)
            /\ FinalPath(r) \in (fs \ partial)

C6_ReadStep ==
    (/\ reader' # reader
     /\ reader'.pc = "done"
     /\ \E r \in Reqs : /\ reqs[r].pc = "done"
                        /\ reqs[r].id = reader'.id
                        /\ now < ExpiryOf(r))
    => (reader'.status = 200 /\ reader'.content = "full")

C6_RetrievableBeforeExpiry == []C6_Live /\ [][C6_ReadStep]_vars

\* a sweep has run since the entry was published, the entry has not expired,
\* and a retrieval has just been answered
C6_Witness ==
    /\ now > 0
    /\ ~sweepDue
    /\ reader.pc = "done"
    /\ reader.status = 200
    /\ \E r \in Reqs : /\ reqs[r].pc = "done"
                       /\ reqs[r].id = reader.id
                       /\ reqs[r].publishedAt < now
                       /\ now < ExpiryOf(r)

\* C7: a spawn that fails to launch makes the job fail with status 500 and an
\* error that carries the OS error code; no final artifact and no entry exist.
C7_LaunchFailureFailsJob ==
    \A r \in Reqs :
        reqs[r].spawnFailed =>
            /\ reqs[r].pc = "failed"
            /\ reqs[r].status = 500
            /\ reqs[r].err.code = "ENOENT"
            /\ ~MapHas(results, reqs[r].id)
            /\ {FinalPath(r), LegacyPath("out", reqs[r].id)} \cap fs = {}

\* C8: a retrieval that finds the entry in the store and its file gone
\* answers 404.
C8_MissingFileIsNotFound ==
    (reader.pc = "done" /\ reader.missingAtLookup) => reader.status = 404

\* C9: the paths a job reads, writes or deletes carry its own id, so no two
\* jobs share one.
C9_ScratchDisjoint ==
    /\ \A r \in Reqs : \A p \in reqs[r].touched : p[2] = reqs[r].id /\ reqs[r].id # 0
    /\ \A r1, r2 \in Reqs : r1 # r2 => reqs[r1].touched \cap reqs[r2].touched = {}

\* two jobs are in flight together, each with files of its own on disk
C9_Witness ==
    \E r1, r2 \in Reqs :
        /\ r1 # r2
        /\ reqs[r1].pc \in Running /\ reqs[r1].touched \cap fs # {}
        /\ reqs[r2].pc \in Running /\ reqs[r2].touched \cap fs # {}

\* C10: running the deletions of a finished job again, its files being gone,
\* raises nothing and changes nothing; and a deletion that found its file
\* gone the first time did not change the job's outcome.
C10_CleanupIdempotent ==
    \A r \in Reqs :
        reqs[r].pc = "done" =>
            /\ ~Cleanup(fs, reqs[r].id).escaped
            /\ Cleanup(fs, reqs[r].id).fs = fs
            /\ Cleanup(fs, reqs[r].id).fs \cap ScratchOf(r) \subseteq {FinalPath(r)}

\* a job has finished although one of its scratch files was removed from
\* under it before its own deletions ran
C10_Witness ==
    /\ deletes = 1
    /\ reqs[1].pc = "done"
    /\ reqs[2].pc = "idle"
    /\ FinalPath(1) \in fs

\* C11: a retrieval whose lookup found the entry, and whose file is opened
\* after a sweep may have taken the entry, ends either with status 200 and
\* the whole file or with status 404: never with an error status, never with
\* a part of the file.
C11_ReadAllOrNothing ==
    (reader.pc = "done" /\ reader.path # <<>>) =>
        \/ reader.status = 404
        \/ reader.status = 200 /\ reader.content = "full"

\* C12: the promise of every child process that has ended is settled, and
\* settled by the first event only; it is resolved exactly when the process
\* exited with code 0; a non-zero code, a kill by a signal and a failed
\* launch each reject it, the failed launch with the OS error code.
C12_SettledByExitCode ==
    \A r \in Reqs :
        reqs[r].lastRun # NoRun =>
            /\ reqs[r].lastRun.state \in {"resolved", "rejected"}
            /\ reqs[r].lastRun.state = "resolved" <=> reqs[r].lastRun.out = "exit0"
            /\ reqs[r].lastRun.out = "enoent" => reqs[r].lastRun.err.code = "ENOENT"
            /\ reqs[r].lastRun.out = "signal" => reqs[r].pc = "failed"

\* C13: the operations of a job start in the order fetch v1, v2, v3,
\* narration, list file, base build, final mux, one at a time: each is
\* started only when the files of all the earlier ones are complete on disk,
\* the final mux only when the base build has exited with code 0; a job that
\* is waiting waits for the last operation it started, and for no other.
StageOrder ==
    <<"fetch_v1", "fetch_v2", "fetch_v3", "fetch_a1", "write_list", "base_build",
      "final_mux">>

\* the file each operation leaves when it has succeeded
StageOutput ==
    <<"v1", "v2", "v3", "narr", "list", "base", "final">>

C13_PcOf(op) ==
    CASE op = "fetch_v1" -> "v1" [] op = "fetch_v2" -> "v2" [] op = "fetch_v3" -> "v3"
      [] op = "fetch_a1" -> "a1" [] op = "write_list" -> "list"
      [] op = "base_build" -> "base" [] op = "final_mux" -> "final"

C13_InOrder ==
    \A r \in Reqs :
        /\ Len(reqs[r].ops) <= Len(StageOrder)
        /\ reqs[r].ops = SubSeq(StageOrder, 1, Len(reqs[r].ops))
        /\ reqs[r].pc \in Running =>
              /\ reqs[r].ops # <<>>
              /\ reqs[r].pc = C13_PcOf(reqs[r].ops[Len(reqs[r].ops)])

C13_StartStep ==
    \A r \in Reqs :
        Len(reqs'[r].ops) > Len(reqs[r].ops) =>
            /\ Len(reqs'[r].ops) = Len(reqs[r].ops) + 1
            /\ reqs'[r].pc \in Running
            /\ \A k \in 1..Len(reqs[r].ops) :
                  TmpPath(StageOutput[k], reqs'[r].id) \in (fs' \ partial')
            /\ reqs'[r].pc = "final" => reqs'[r].lastRun.out = "exit0"

C13_StagesSequential == []C13_InOrder /\ [][C13_StartStep]_vars

\* one job waits for its final mux, all seven operations started in order,
\* while another job is still fetching
C13_Witness ==
    \E r1, r2 \in Reqs :
        /\ reqs[r1].pc = "final" /\ reqs[r1].ops = StageOrder
        /\ reqs[r2].pc \in DownloadPcs

\* C14 (as stated): when a job's entry was registered, its three videos, its
\* narration and its base clip were no longer on disk.
InputsOf(r) == {TmpPath(role, reqs[r].id) : role \in {"v1", "v2", "v3", "narr"}}

C14_AtRegistration ==
    \A r \in Reqs :
        reqs[r].publishedAt >= 0 =>
            /\ TmpPath("base", reqs[r].id) \notin reqs[r].atPublish
            /\ FinalPath(r) \in reqs[r].atPublish
            /\ InputsOf(r) \cup {TmpPath("list", reqs[r].id)} \subseteq reqs[r].atPublish

C14_PublishStep ==
    \A r \in Reqs :
        (reqs[r].publishedAt < 0 /\ reqs'[r].publishedAt >= 0) =>
            /\ reqs[r].pc = "final"
            /\ reqs'[r].pc = "done"
            /\ MapHas(results', reqs'[r].id)
            /\ (InputsOf(r) \cup {TmpPath("list", reqs[r].id)}) \cap fs' = {}

C15_SweepRan == sweepDue /\ ~sweepDue'

C15_Kept == SelectSeq(results, LAMBDA e : e.expiresAt > now)

C15_SweepStep ==
    C15_SweepRan =>
        /\ \A i \in 1..Len(results') : results'[i].expiresAt > now
        /\ \A i \in 1..Len(results) :
              results[i].expiresAt <= now =>
                  /\ ~MapHas(results', results[i].id)
                  /\ results[i].filePath \notin fs'
        /\ results' = C15_Kept

C15_SweepLeavesNoExpired == [][C15_SweepStep]_vars

\* one sweep has removed the entries of two jobs published together, one of
\* them an entry whose file had been removed before by someone else
C15_Witness ==
    /\ reqs[1].pc = "done" /\ reqs[2].pc = "done"
    /\ reqs[1].publishedAt = reqs[2].publishedAt
    /\ results = <<>>
    /\ reader.pc = "done"
    /\ reader.missingAtLookup
    /\ reader.id = reqs[1].id

\* C16: with nobody else deleting files, the file of every entry of the
\* store is on disk and completely written, and no two entries name one file.
C16_EntryFileExists ==
    /\ \A i \in 1..Len(results) : results[i].filePath \in (fs \ partial)
    /\ \A i, j \in 1..Len(results) :
          results[i].filePath = results[j].filePath => i = j

\* the sweep has taken one job's entry and file and left a later job's
C16_Witness ==
    \E r1, r2 \in Reqs :
        /\ reqs[r1].pc = "done" /\ reqs[r2].pc = "done"
        /\ ~MapHas(results, reqs[r1].id) /\ FinalPath(r1) \notin fs
        /\ MapHas(results, reqs[r2].id) /\ FinalPath(r2) \in fs

\* C17: a job starts each of its fetches and each of its transcode stages at
\* most once; the step in which one of them fails starts nothing and answers
\* 500, and a failed job starts nothing afterwards.
C17_StartedOnce ==
    \A r \in Reqs :
        \A i, j \in 1..Len(reqs[r].ops) : reqs[r].ops[i] = reqs[r].ops[j] => i = j

C17_FailureStep ==
    \A r \in Reqs :
        /\ (reqs[r].pc \in Running /\ reqs'[r].err # NoErr) =>
              /\ reqs'[r].pc = "failed"
              /\ reqs'[r].status = 500
              /\ reqs'[r].ops = reqs[r].ops
        /\ reqs[r].pc = "failed" => reqs'[r] = reqs[r]

C17_NoRetry == []C17_StartedOnce /\ [][C17_FailureStep]_vars

\* a base build has exited with code 1, its inputs still on disk, and the
\* job has failed without starting the final mux
C17_Witness ==
    \E r \in Reqs :
        /\ reqs[r].pc = "failed"
        /\ reqs[r].lastRun.out = "exit1"
        /\ reqs[r].ops = SubSeq(StageOrder, 1, 6)
        /\ BaseInputs(reqs[r].id) \subseteq fs

\* C18: in every step, an entry of the store either stays as it is, with its
\* filePath and its expiresAt, or is removed by the sweep after its own
\* expiresAt has passed; an entry that appears has the id of the job that
\* publishes in that step, an id the store did not hold; a step of a
\* retrieval changes neither the store nor the files.
C18_EntriesOf(m) == {m[i] : i \in 1..Len(m)}

C18_FrameStep ==
    /\ \A e \in C18_EntriesOf(results) :
          \/ e \in C18_EntriesOf(results')
          \/ /\ C15_SweepRan
             /\ e.expiresAt <= now
             /\ ~MapHas(results', e.id)
    /\ \A e \in C18_EntriesOf(results') \ C18_EntriesOf(results) :
          /\ ~MapHas(results, e.id)
          /\ \E r \in Reqs : /\ reqs[r].pc = "final" /\ reqs'[r].pc = "done"
                              /\ reqs[r].id = e.id
                              /\ e.filePath = FinalPath(r)
                              /\ e.expiresAt = now + RESULT_TTL_MS
    /\ Len(results') = Cardinality(C18_EntriesOf(results'))
    /\ reader' # reader => (results' = results /\ fs' = fs)

C18_OthersUntouched == [][C18_FrameStep]_vars

\* the sweep has removed the entry of an earlier job, the entry of a later
\* job is as it was published, and a retrieval of the later job is served
C18_Witness ==
    \E r1, r2 \in Reqs :
        /\ reqs[r1].pc = "done" /\ ~MapHas(results, reqs[r1].id)
        /\ reqs[r2].pc = "done" /\ MapHas(results, reqs[r2].id)
        /\ MapGet(results, reqs[r2].id).expiresAt = ExpiryOf(r2)
        /\ reader.id = reqs[r2].id
        /\ reader.status = 200

\* C19: in the step in which a job answers with its identifier, its three
\* videos, its narration, its list file and its base clip leave the disk and
\* its final output stays, complete; and a job that has answered never has
\* any file on disk but its final output.
C19_AnswerStep ==
    \A r \in Reqs :
        (reqs[r].status = 0 /\ reqs'[r].status = 200) =>
            /\ ScratchOf(r) \cap fs' = {FinalPath(r)}
            /\ FinalPath(r) \notin partial'
            /\ MapGet(results', reqs'[r].id).filePath = FinalPath(r)

C19_OnlyFinal ==
    \A r \in Reqs :
        reqs[r].status = 200 => ScratchOf(r) \cap fs \subseteq {FinalPath(r)}

C19_OnlyArtifactRemains == []C19_OnlyFinal /\ [][C19_AnswerStep]_vars

\* one job has answered and only its output is left, while a failed job's
\* files are still on disk
C19_Witness ==
    \E r1, r2 \in Reqs :
        /\ reqs[r1].status = 200
        /\ ScratchOf(r1) \cap fs = {FinalPath(r1)}
        /\ reqs[r2].pc = "failed"
        /\ ScratchOf(r2) \cap fs # {}

\* C20: once the entry of a published job is out of the store it never comes
\* back, and every retrieval that looks the id up from then on is answered
\* 404; while an entry is in the store its expiresAt stays what it was at
\* publication.
C20_Gone(r) == reqs[r].publishedAt >= 0 /\ ~MapHas(results, reqs[r].id)

C20_AbsenceStep ==
    \A r \in Reqs :
        /\ C20_Gone(r) =>
              /\ ~MapHas(results', reqs[r].id)
              /\ (reader' # reader /\ reader.pc # "opening" /\ reader'.id = reqs[r].id) =>
                    (reader'.pc = "done" /\ reader'.status = 404)
        /\ (MapHas(results, reqs[r].id) /\ MapHas(results', reqs[r].id)) =>
              MapGet(results', reqs[r].id).expiresAt = MapGet(results, reqs[r].id).expiresAt

C20_AbsenceIsPermanent == [][C20_AbsenceStep]_vars

\* a retrieval of a swept job has been answered 404 although another job
\* published after the sweep and its entry is in the store
C20_Witness ==
    \E r1, r2 \in Reqs :
        /\ C20_Gone(r1)
        /\ reader.pc = "done" /\ reader.id = reqs[r1].id /\ reader.status = 404
        /\ reqs[r2].publishedAt >= ExpiryOf(r1)
        /\ MapHas(results, reqs[r2].id)

====
